---- MODULE Spec2Model ----
(***************************************************************************)
(* Model of the Bedrock inference-profile management tool:                 *)
(*   src/bedrock_tagger.py                           (class BedrockTagger) *)
(*   src/bedrock_inference_profile_management_tool.py  (the workflows)     *)
(*                                                                         *)
(* The boto3 client is not part of the repository.  Every call to it is    *)
(* logged in `calls`, and whether the call succeeds is an input of the     *)
(* action that issues it.  The remote service keeps the APPLICATION        *)
(* profiles in listing order; a newly created profile is listed last.      *)
(* The tags the service stores for a profile are part of the state only    *)
(* where they are read: in `listing`, for list_inference_profiles.         *)
(* Batch create hands tags=None to the client when the config has no tags  *)
(* key; whether the client accepts that call is an input like any other    *)
(* call result.  Credential selection and YAML parsing are left out.       *)
(***************************************************************************)
EXTENDS Integers, Sequences, FiniteSets, TLC

\* ------------------------------------------------------------------ bounds
MaxProfiles == 2      \* longest bedrock-profiles list of a config
MaxExisting == 1      \* longest existing-profiles-to-tag list of a config
MaxTags     == 2      \* longest tags list handed to save_to_csv
MaxRows     == 2      \* longest profiles list handed to save_to_csv
MaxSaves    == 3      \* save_to_csv calls against one sink path
MaxListed   == 3      \* most profiles the service holds for a listing
MaxPageSize == 2      \* most profiles the service puts on one result page
MaxInputs   == 10     \* user inputs read by one interactive run
MaxUnprompted == 3    \* tagger calls followed without a user input between

\* --------------------------------------------------------- program constants
MaxResults == 100     \* maxResults of the duplicate check's single list call

\* ------------------------------------------------------------ input domains
Tag(k, v) == [key |-> k, value |-> v]

TagPool == {Tag("team", "ml"), Tag("env", "prod")}

RECURSIVE SeqsUpTo(_, _)
\* all sequences over S of length at most n
SeqsUpTo(S, n) ==
    IF n = 0 THEN {<< >>}
    ELSE LET shorter == SeqsUpTo(S, n - 1)
         IN  shorter \cup {Append(s, x) : s \in {t \in shorter : Len(t) = n - 1}, x \in S}

\* config.get('tags'): None when the key is missing, else the list
PyNone       == [none |-> TRUE,  items |-> << >>]
PyList(tags) == [none |-> FALSE, items |-> tags]

\* the tags of a batch config: key missing, empty list, two tags
TagsChoices ==
    {PyNone, PyList(<< >>), PyList(<< Tag("team", "ml"), Tag("env", "prod") >>)}

\* the tags handed to save_to_csv
CsvTagsChoices == {PyNone} \cup {PyList(t) : t \in SeqsUpTo(TagPool, MaxTags)}

ProfileConfig(n, t, m) == [name |-> n, model_type |-> t, model_id |-> m]

SysProfileArn == "arn:aws:bedrock:us-west-2:111122223333:inference-profile/us.m1"

ProfilePool ==
    { ProfileConfig("p1", "foundation", "m1"),
      ProfileConfig("p2", "inference",  SysProfileArn) }

\* the arn the service gives to the id-th APPLICATION profile
AppArn(id) == "arn:aws:bedrock:app/" \o ToString(id)

\* an existing-profiles-to-tag entry; "" stands for a missing key
ExistingConfig(n, a) == [name |-> n, arn |-> a]

ExistingPool ==
    { ExistingConfig("p1", ""),
      ExistingConfig("p2", ""),
      ExistingConfig("", AppArn(1)),
      ExistingConfig("", "") }

RemoteProfile(n, a) == [name |-> n, arn |-> a]

\* the APPLICATION profiles present before the run: `others` profiles whose
\* names are unrelated to the config, listed first, then the named ones
RemoteChoices ==
    { [others |-> 0,          named |-> << >>],
      [others |-> 0,          named |-> << RemoteProfile("p2", AppArn(1)) >>],
      [others |-> MaxResults, named |-> << >>] }

RegionChoices == {"", "us-west-2"}           \* config.get('region')
RegionInputs  == {""}                        \* answer to the region prompt
DefaultRegion == "ap-northeast-1"

IOFaults == {"none", "open", "flush"}

\* ------------------------------------------------------------------- state
VARIABLES
    mode,             \* "create" (-f) or "tag" (-t)
    config,           \* the loaded YAML configuration
    region,           \* region in use
    pc,               \* position in the workflow
    i,                \* 1-based index of the next entry of the running loop
    otherCount,       \* remote: number of other APPLICATION profiles
    app,              \* remote: named APPLICATION profiles in listing order
    nextId,           \* remote: id of the next profile to be created
    sink,             \* the audit CSV file of the run
    tagged_profiles,  \* batch_tag_inference_profiles' accumulator
    out,              \* lines printed so far
    calls,            \* boto3 client calls issued so far
    listing,          \* remote: the profiles of both types, with stored tags
    listed,           \* the call of list_inference_profiles and its return
    prompts,          \* interactive: user inputs read so far
    unprompted,       \* interactive: tagger calls since the last user input
    ui                \* interactive: tags, profile_name and the list displayed

listVars == << listing, listed >>

uiVars == << prompts, unprompted, ui >>

vars == << mode, config, region, pc, i, otherCount, app, nextId, sink,
           tagged_profiles, out, calls, listVars, uiVars >>

\* list_inference_profiles has not been called
NotListed == [called |-> FALSE, type |-> "", profiles |-> << >>]

\* the locals of interactive_create_inference_profile before any input
NoUi == [tags |-> PyList(<< >>), profile_name |-> "", choices |-> << >>]

\* ------------------------------------------------------------ printed lines
\* group/idx name the loop and the entry the line was printed for
Line(kind, group, idx, name, arn, detail) ==
    [kind |-> kind, group |-> group, idx |-> idx, name |-> name,
     arn |-> arn, detail |-> detail]

\* a client call, its arguments and whether it returned (ok) or raised
Call(op, group, idx, name, arn, tags, ok) ==
    [op |-> op, group |-> group, idx |-> idx, name |-> name, arn |-> arn,
     tags |-> tags, ok |-> ok]

\* ------------------------------------------------------------ audit sink
NoFile == [exists |-> FALSE, rows |-> << >>]

Row(n, a, t) == [name |-> n, arn |-> a, tags |-> t]

HeaderRow == Row("Profile Name", "Profile ARN", "Tags")

RECURSIVE Join(_, _)
\* sep.join(parts)
Join(parts, sep) ==
    IF Len(parts) = 0 THEN ""
    ELSE IF Len(parts) = 1 THEN parts[1]
    ELSE parts[1] \o sep \o Join(Tail(parts), sep)

\* tag_str with the pairs joined last tag first
tag_str_Reversed(tags) ==
    Join([k \in 1..Len(tags) |->
            tags[Len(tags) + 1 - k].key \o "=" \o tags[Len(tags) + 1 - k].value],
         "; ")

\* '; '.join([f"{tag['key']}={tag['value']}" for tag in tags])
tag_str(tags) ==
    Join([k \in 1..Len(tags) |-> tags[k].key \o "=" \o tags[k].value], "; ")

\* CsvWrites with writeheader() called on every save
CsvWrites_HeaderAlways(file, profiles, tags) ==
    << HeaderRow >>
    \o [k \in 1..Len(profiles) |->
            Row(profiles[k].name, profiles[k].arn, tag_str(tags))]

\* the rows save_to_csv hands to the writer, in writing order
CsvWrites(file, profiles, tags) ==
    (IF file.exists THEN << >> ELSE << HeaderRow >>)
    \o [k \in 1..Len(profiles) |->
            Row(profiles[k].name, profiles[k].arn, tag_str(tags))]

\* save_to_csv without the try/except: a file system fault leaves the function
save_to_csv_Propagates(file, profiles, tags, io, kept, group, idx) ==
    IF tags.none \/ io = "open"
    THEN [file |-> file, raised |-> TRUE,
          line |-> Line("csv_error", group, idx, "", "", "OSError")]
    ELSE IF io = "flush"
    THEN [file |-> [exists |-> TRUE,
                    rows |-> file.rows
                         \o SubSeq(CsvWrites(file, profiles, tags.items), 1, kept)],
          raised |-> TRUE,
          line |-> Line("csv_error", group, idx, "", "", "OSError")]
    ELSE [file |-> [exists |-> TRUE,
                    rows |-> file.rows \o CsvWrites(file, profiles, tags.items)],
          raised |-> FALSE,
          line |-> Line("saved", group, idx, "", "", "")]

\* save_to_csv(profiles, tags, filename).  io is the fault of the file
\* system during this call and kept the number of written rows that reach
\* the file when the fault hits after open().  The result is the file, the
\* line printed, and whether an exception leaves the function.
save_to_csv(file, profiles, tags, io, kept, group, idx) ==
    IF tags.none
    THEN \* iterating None raises TypeError inside the try block
         [file |-> file, raised |-> FALSE,
          line |-> Line("csv_error", group, idx, "", "", "TypeError")]
    ELSE IF io = "open"
    THEN [file |-> file, raised |-> FALSE,
          line |-> Line("csv_error", group, idx, "", "", "OSError")]
    ELSE IF io = "flush"
    THEN [file |-> [exists |-> TRUE,
                    rows |-> file.rows
                         \o SubSeq(CsvWrites(file, profiles, tags.items), 1, kept)],
          raised |-> FALSE,
          line |-> Line("csv_error", group, idx, "", "", "OSError")]
    ELSE [file |-> [exists |-> TRUE,
                    rows |-> file.rows \o CsvWrites(file, profiles, tags.items)],
          raised |-> FALSE,
          line |-> Line("saved", group, idx, "", "", "")]

\* ------------------------------------------------------------------- Init
Init ==
    /\ mode \in {"create", "tag"}
    /\ \E r \in RegionChoices, t \in TagsChoices,
          ps \in SeqsUpTo(ProfilePool, MaxProfiles),
          es \in SeqsUpTo(ExistingPool, MaxExisting) :
            /\ mode = "create" => es = << >>
            /\ config = [region |-> r, tags |-> t, profiles |-> ps, existing |-> es]
    /\ region = ""
    /\ pc = "start"
    /\ i = 1
    /\ \E rs \in RemoteChoices : otherCount = rs.others /\ app = rs.named
    /\ nextId = Len(app) + 1
    /\ sink = NoFile
    /\ tagged_profiles = << >>
    /\ out = << >>
    /\ calls = << >>
    /\ listing = << >>
    /\ listed = NotListed
    /\ prompts = 0
    /\ unprompted = 0
    /\ ui = NoUi

\* ------------------------------------------------------------ BedrockTagger
Min(a, b) == IF a < b THEN a ELSE b
Max(a, b) == IF a > b THEN a ELSE b

\* response['inferenceProfileSummaries'] of the single list call with
\* maxResults = 100: the named profiles that fit on the first page
FirstPage(others, profiles) ==
    SubSeq(profiles, 1, Min(Len(profiles), Max(0, MaxResults - others)))

\* index of the first profile of the listing with this name, 0 if none
FirstMatch(profiles, name) ==
    IF \E k \in 1..Len(profiles) : profiles[k].name = name
    THEN CHOOSE k \in 1..Len(profiles) :
            /\ profiles[k].name = name
            /\ \A j \in 1..(k - 1) : profiles[j].name # name
    ELSE 0

\* BedrockTagger.get_inference_profile_by_name: "found", "absent" or "raise"
get_inference_profile_by_name(others, profiles, name, listOk, getOk, group, idx) ==
    LET listCall == Call("list_inference_profiles", group, idx, "", "", PyNone,
                         listOk)
        page     == FirstPage(others, profiles)
        k        == FirstMatch(page, name)
    IN  IF ~listOk
        THEN [status |-> "raise", calls |-> << listCall >>]
        ELSE IF k = 0
        THEN [status |-> "absent", calls |-> << listCall >>]
        ELSE [status |-> IF getOk THEN "found" ELSE "raise",
              calls  |-> << listCall,
                            Call("get_inference_profile", group, idx, "",
                                 page[k].arn, PyNone, getOk) >>]

\* BedrockTagger.create_inference_profile.  r.list, r.get and r.create say
\* whether the client calls succeed.
create_inference_profile(others, profiles, id, name, model_arn, tags, r, group, idx) ==
    LET chk == get_inference_profile_by_name(others, profiles, name,
                                             r.list, r.get, group, idx)
        createCall == Call("create_inference_profile", group, idx, name,
                           model_arn, tags, r.create)
    IN  IF chk.status = "raise"
        THEN [status |-> "raise", detail |-> "RemoteError", arn |-> "",
              app |-> profiles, nextId |-> id, calls |-> chk.calls]
        ELSE IF chk.status = "found"
        THEN [status |-> "raise", detail |-> "Inference profile already exists",
              arn |-> "", app |-> profiles, nextId |-> id, calls |-> chk.calls]
        ELSE IF ~r.create
        THEN [status |-> "raise", detail |-> "RemoteError", arn |-> "",
              app |-> profiles, nextId |-> id,
              calls |-> Append(chk.calls, createCall)]
        ELSE [status |-> "ok", detail |-> "", arn |-> AppArn(id),
              app |-> Append(profiles, RemoteProfile(name, AppArn(id))),
              nextId |-> id + 1,
              calls |-> Append(chk.calls, createCall)]

\* BedrockTagger.list_inference_profiles(type='APPLICATION') as seen by
\* find_inference_profile_by_name: the named profiles of all pages, or none
\* of them (and a printed line) when the paginator fails
list_inference_profiles(profiles, listOk, group, idx) ==
    [profiles |-> IF listOk THEN profiles ELSE << >>,
     lines    |-> IF listOk THEN << >>
                  ELSE << Line("list_error", group, idx, "", "", "RemoteError") >>,
     calls    |-> << Call("paginate_list_inference_profiles", group, idx,
                          "", "", PyNone, listOk) >>]

\* find_inference_profile_by_name returning the last profile scanned when no
\* name matches
find_inference_profile_by_name_FallThrough(profiles, name, listOk, group, idx) ==
    LET l == list_inference_profiles(profiles, listOk, group, idx)
    IN  [found |-> IF FirstMatch(l.profiles, name) # 0
                   THEN FirstMatch(l.profiles, name) ELSE Len(l.profiles),
         lines |-> l.lines, calls |-> l.calls]

\* BedrockTagger.find_inference_profile_by_name: index of the profile, 0 for None
find_inference_profile_by_name(profiles, name, listOk, group, idx) ==
    LET l == list_inference_profiles(profiles, listOk, group, idx)
    IN  [found |-> FirstMatch(l.profiles, name), lines |-> l.lines, calls |-> l.calls]

\* BedrockTagger.get_inference_profile_by_arn: index of the profile, 0 for None
get_inference_profile_by_arn(profiles, arn, getOk, group, idx) ==
    LET hit == {k \in 1..Len(profiles) : profiles[k].arn = arn}
        ok  == getOk /\ hit # {}
    IN  [found |-> IF ok THEN CHOOSE k \in hit : TRUE ELSE 0,
         lines |-> IF ok THEN << >>
                   ELSE << Line("get_error", group, idx, "", arn, "RemoteError") >>,
         calls |-> << Call("get_inference_profile", group, idx, "", arn,
                           PyNone, ok) >>]

\* BedrockTagger.tag_inference_profile: True or False
tag_inference_profile(arn, tags, tagOk, group, idx) ==
    [success |-> tagOk,
     lines   |-> IF tagOk THEN << >>
                 ELSE << Line("tag_error", group, idx, "", arn, "RemoteError") >>,
     calls   |-> << Call("tag_resource", group, idx, "", arn, tags, tagOk) >>]

\* ------------------------------------------------------------- workflows
\* model ARN of a bedrock-profiles entry
ModelArn(reg, model_type, model_id) ==
    IF model_type = "foundation"
    THEN "arn:aws:bedrock:" \o reg \o "::foundation-model/" \o model_id
    ELSE IF model_type = "inference" THEN model_id
    ELSE ""

RemoteResults == [list : BOOLEAN, get : BOOLEAN, create : BOOLEAN]

\* NoTags testing `tags is None` only: an empty tags list passes
NoTags_NoneOnly(tags) == tags.none

\* `if not tags` of batch_tag_inference_profiles
NoTags(tags) == tags.none \/ Len(tags.items) = 0

\* AfterLoop with the create loop placed before the tagging loop
AfterLoop_CreateFirst(from) ==
    IF from = "start" /\ Len(config.profiles) > 0 THEN "creating"
    ELSE IF from \in {"start", "creating"} /\ Len(config.existing) > 0 THEN "tagging"
    ELSE IF from \in {"start", "tagging", "creating"} THEN "saving"
    ELSE "done"

\* where batch_tag_inference_profiles goes when the loop `from` has ended
AfterLoop(from) ==
    IF from = "start" /\ Len(config.existing) > 0 THEN "tagging"
    ELSE IF from \in {"start", "tagging"} /\ Len(config.profiles) > 0 THEN "creating"
    ELSE IF from \in {"start", "tagging", "creating"} THEN "saving"
    ELSE "done"

\* loading the config, choosing the region, the tags check of batch tag
Start ==
    /\ pc = "start"
    /\ \E answer \in RegionInputs :
         region' = IF config.region # "" THEN config.region
                   ELSE IF answer # "" THEN answer ELSE DefaultRegion
    /\ IF mode = "create"
       THEN /\ pc' = IF Len(config.profiles) > 0 THEN "creating" ELSE "done"
            /\ out' = out
       ELSE IF NoTags(config.tags)
       THEN /\ pc' = "done"
            /\ out' = Append(out, Line("no_tags", "", 0, "", "", ""))
       ELSE /\ pc' = AfterLoop("start")
            /\ out' = out
    /\ UNCHANGED << listVars, uiVars >>
    /\ UNCHANGED << mode, config, i, otherCount, app, nextId, sink,
                    tagged_profiles, calls >>

\* one iteration of the loop of batch_create_inference_profiles
CreateStep ==
    /\ mode = "create"
    /\ pc = "creating"
    /\ i <= Len(config.profiles)
    /\ \E r \in RemoteResults, io \in IOFaults, kept \in 0..1 :
         LET pcfg == config.profiles[i]
             arn  == ModelArn(region, pcfg.model_type, pcfg.model_id)
             c    == create_inference_profile(otherCount, app, nextId, pcfg.name,
                                              arn, config.tags, r, "create", i)
             s    == save_to_csv(sink, << RemoteProfile(pcfg.name, c.arn) >>,
                                 config.tags, io, kept, "create", i)
         IN  /\ calls' = calls \o c.calls
             /\ app' = c.app
             /\ nextId' = c.nextId
             /\ IF c.status = "raise"
                THEN /\ out' = Append(out, Line("create_error", "create", i,
                                                pcfg.name, "", c.detail))
                     /\ sink' = sink
                ELSE /\ sink' = s.file
                     /\ out' = out
                          \o << Line("created", "create", i, "", c.arn, "") >>
                          \o (IF s.raised
                              THEN << Line("create_error", "create", i,
                                           pcfg.name, "", "OSError") >>
                              ELSE << s.line >>)
    /\ i' = i + 1
    /\ pc' = IF i = Len(config.profiles) THEN "done" ELSE "creating"
    /\ UNCHANGED << listVars, uiVars >>
    /\ UNCHANGED << mode, config, region, otherCount, tagged_profiles >>

\* one iteration of the "Tag existing profiles" loop of batch tag
TagExistingStep ==
    /\ mode = "tag"
    /\ pc = "tagging"
    /\ i <= Len(config.existing)
    /\ \E listOk \in BOOLEAN, getOk \in BOOLEAN, tagOk \in BOOLEAN :
         LET e == config.existing[i]
             f == IF e.arn = ""
                  THEN find_inference_profile_by_name(app, e.name, listOk, "existing", i)
                  ELSE get_inference_profile_by_arn(app, e.arn, getOk, "existing", i)
             p == app[f.found]
             t == tag_inference_profile(p.arn, config.tags, tagOk, "existing", i)
         IN  IF e.name = "" /\ e.arn = ""
             THEN /\ out' = Append(out, Line("no_name_or_arn", "existing", i, "", "", ""))
                  /\ UNCHANGED << calls, tagged_profiles >>
             ELSE IF f.found = 0
             THEN /\ out' = out \o f.lines
                       \o << Line("not_found", "existing", i, e.name, e.arn, "") >>
                  /\ calls' = calls \o f.calls
                  /\ UNCHANGED tagged_profiles
             ELSE /\ calls' = calls \o f.calls \o t.calls
                  /\ out' = out \o f.lines \o t.lines
                       \o << Line(IF t.success THEN "tagged" ELSE "tag_failed",
                                  "existing", i, p.name, p.arn, "") >>
                  /\ tagged_profiles' =
                       IF t.success
                       THEN Append(tagged_profiles, RemoteProfile(p.name, p.arn))
                       ELSE tagged_profiles
    /\ i' = IF i = Len(config.existing) THEN 1 ELSE i + 1
    /\ pc' = IF i = Len(config.existing) THEN AfterLoop("tagging") ELSE "tagging"
    /\ UNCHANGED << listVars, uiVars >>
    /\ UNCHANGED << mode, config, region, otherCount, app, nextId, sink >>

\* one iteration of the "Create and tag new profiles" loop of batch tag
TagCreateStep ==
    /\ mode = "tag"
    /\ pc = "creating"
    /\ i <= Len(config.profiles)
    /\ \E r \in RemoteResults :
         LET pcfg == config.profiles[i]
             arn  == ModelArn(region, pcfg.model_type, pcfg.model_id)
             c    == create_inference_profile(otherCount, app, nextId, pcfg.name,
                                              arn, config.tags, r, "create", i)
         IN  /\ calls' = calls \o c.calls
             /\ app' = c.app
             /\ nextId' = c.nextId
             /\ IF c.status = "raise"
                THEN /\ out' = Append(out, Line("create_error", "create", i,
                                                pcfg.name, "", c.detail))
                     /\ UNCHANGED tagged_profiles
                ELSE /\ out' = Append(out, Line("created", "create", i, "", c.arn, ""))
                     /\ tagged_profiles' =
                          Append(tagged_profiles, RemoteProfile(pcfg.name, c.arn))
    /\ i' = IF i = Len(config.profiles) THEN 1 ELSE i + 1
    /\ pc' = IF i = Len(config.profiles) THEN AfterLoop("creating") ELSE "creating"
    /\ UNCHANGED << listVars, uiVars >>
    /\ UNCHANGED << mode, config, region, otherCount, sink >>

\* "Save results to CSV" at the end of batch tag
SaveResults ==
    /\ mode = "tag"
    /\ pc = "saving"
    /\ \E io \in IOFaults, kept \in 0..Len(tagged_profiles) :
         LET s == save_to_csv(sink, tagged_profiles, config.tags, io, kept, "", 0)
         IN  IF Len(tagged_profiles) > 0
             THEN /\ sink' = s.file
                  /\ out' = IF s.raised
                            THEN Append(out, Line("traceback", "", 0, "", "", "OSError"))
                            ELSE out \o << s.line,
                                           Line("summary", "", 0, "", "",
                                                ToString(Len(tagged_profiles))) >>
                  /\ pc' = IF s.raised THEN "crashed" ELSE "done"
             ELSE /\ sink' = sink
                  /\ out' = Append(out, Line("none_tagged", "", 0, "", "", ""))
                  /\ pc' = "done"
    /\ UNCHANGED << listVars, uiVars >>
    /\ UNCHANGED << mode, config, region, i, otherCount, app, nextId,
                    tagged_profiles, calls >>

\* the counts the final report of batch tag prints: the number of tagged
\* profiles, or no count at all ("No profiles were tagged")
ReportedCounts ==
    IF \E k \in 1..Len(out) : out[k].kind = "summary"
    THEN LET k == CHOOSE j \in 1..Len(out) : out[j].kind = "summary"
         IN  [tagged |-> CHOOSE n \in 0..(Len(config.profiles) + Len(config.existing)) :
                            ToString(n) = out[k].detail]
    ELSE [c \in {} |-> 0]

Next ==
    \/ Start
    \/ CreateStep
    \/ TagExistingStep
    \/ TagCreateStep
    \/ SaveResults

Spec == Init /\ [][Next]_vars

\* ------------------------------------------- save_to_csv on its own
\* the profiles handed to save_to_csv
CsvProfilePool == {RemoteProfile("p1", AppArn(1))}

\* the tags of the session are drawn at the start; the sink path is new
InitCsv ==
    /\ mode = "csv"
    /\ \E t \in CsvTagsChoices :
         config = [region |-> "", tags |-> t, profiles |-> << >>, existing |-> << >>]
    /\ region = ""
    /\ pc = "csv"
    /\ i = 1
    /\ otherCount = 0
    /\ app = << >>
    /\ nextId = 1
    /\ sink = NoFile
    /\ tagged_profiles = << >>
    /\ out = << >>
    /\ calls = << >>
    /\ listing = << >>
    /\ listed = NotListed
    /\ prompts = 0
    /\ unprompted = 0
    /\ ui = NoUi

\* the i-th call save_to_csv(profiles, tags, filename) with the same filename
SaveCall ==
    /\ mode = "csv"
    /\ i <= MaxSaves
    /\ \E ps \in SeqsUpTo(CsvProfilePool, MaxRows), io \in IOFaults,
          kept \in 0..MaxRows :
         /\ kept <= Len(ps)
         /\ LET s == save_to_csv(sink, ps, config.tags, io, kept, "csv", i)
            IN  /\ sink' = s.file
                /\ out' = Append(out, s.line)
    /\ i' = i + 1
    /\ UNCHANGED << listVars, uiVars >>
    /\ UNCHANGED << mode, config, region, pc, otherCount, app, nextId,
                    tagged_profiles, calls >>

NextCsv == SaveCall

SpecCsv == InitCsv /\ [][NextCsv]_vars

\* ======================================= list_inference_profiles, page by page
ListTypes == {"APPLICATION", "SYSTEM_DEFINED"}

\* the arn of the k-th profile the service holds
ListArn(k) == "arn:aws:bedrock:profile/" \o ToString(k)

\* the tags the service stores for a profile
StoredTagsChoices == { << >>, << Tag("team", "ml") >> }

\* the profiles the service holds, in listing order
Listings ==
    UNION { { [k \in 1..n |-> [type |-> f[k][1],
                               name |-> "lp" \o ToString(k),
                               arn  |-> ListArn(k),
                               tags |-> f[k][2]]] :
                f \in [1..n -> ListTypes \X StoredTagsChoices] } :
            n \in 0..MaxListed }

\* the service's answer to typeEquals=type
TypeEquals(profiles, type) == SelectSeq(profiles, LAMBDA p : p.type = type)

\* page requests the paginator issues for a listing: one at least
NumPages(items, size) == Max(1, (Len(items) + size - 1) \div size)

\* page['inferenceProfileSummaries'] of the p-th page
PageOf(items, size, p) ==
    SubSeq(items, (p - 1) * size + 1, Min(p * size, Len(items)))

\* the entry appended for a profile whose tags came back empty in every case
ListEntry_NoTags(p, fetchOk) ==
    [name |-> p.name, inferenceProfileArn |-> p.arn, tags |-> << >>]

\* profiles.append({...}): the tags of the response, [] when the fetch raised;
\* region, modelArn, modelId and status are copied like name
ListEntry(p, fetchOk) ==
    [name |-> p.name, inferenceProfileArn |-> p.arn,
     tags |-> IF fetchOk THEN p.tags ELSE << >>]

RECURSIVE PageEntries(_, _, _, _)
\* `for profile in page.get('inferenceProfileSummaries', [])`: one
\* list_tags_for_resource call and one entry per profile; the fetch of the
\* profiles in tagFails raises and nothing is printed for it
PageEntries(page, pageNo, tagFails, acc) ==
    IF page = << >> THEN acc
    ELSE LET p  == Head(page)
             ok == p.arn \notin tagFails
         IN  PageEntries(Tail(page), pageNo, tagFails,
                [acc EXCEPT
                   !.profiles = Append(@, ListEntry(p, ok)),
                   !.calls = Append(@, Call("list_tags_for_resource", "list",
                                            pageNo, p.name, p.arn, PyNone, ok))])

RECURSIVE ListPages(_, _, _, _, _, _, _)
\* `for page in paginator.paginate(typeEquals=type)`: the failPage-th page
\* request raises (0: none does); the outer except prints and the entries
\* collected so far are returned
ListPages(items, type, size, pageNo, failPage, tagFails, acc) ==
    IF pageNo > NumPages(items, size) THEN acc
    ELSE IF pageNo = failPage
    THEN [acc EXCEPT
            !.calls = Append(@, Call("list_inference_profiles_page", "list",
                                     pageNo, type, "", PyNone, FALSE)),
            !.lines = Append(@, Line("list_error", "list", pageNo, type, "",
                                     "RemoteError"))]
    ELSE ListPages(items, type, size, pageNo + 1, failPage, tagFails,
            PageEntries(PageOf(items, size, pageNo), pageNo, tagFails,
                [acc EXCEPT
                   !.calls = Append(@, Call("list_inference_profiles_page",
                                "list", pageNo, type, "", PyNone, TRUE))]))

\* BedrockTagger.list_inference_profiles(type) against the profiles the
\* service holds, delivered in pages of `size`
list_inference_profiles_paged(profiles, type, size, failPage, tagFails) ==
    ListPages(TypeEquals(profiles, type), type, size, 1, failPage, tagFails,
              [profiles |-> << >>, lines |-> << >>, calls |-> << >>])

InitList ==
    /\ mode = "list"
    /\ config = [region |-> "", tags |-> PyNone, profiles |-> << >>,
                 existing |-> << >>]
    /\ region = ""
    /\ pc = "list"
    /\ i = 1
    /\ otherCount = 0
    /\ app = << >>
    /\ nextId = 1
    /\ sink = NoFile
    /\ tagged_profiles = << >>
    /\ out = << >>
    /\ calls = << >>
    /\ listing \in Listings
    /\ listed = NotListed
    /\ prompts = 0
    /\ unprompted = 0
    /\ ui = NoUi

\* one call bedrock_tagger.list_inference_profiles(type=...)
ListCall ==
    /\ mode = "list"
    /\ pc = "list"
    /\ \E type \in ListTypes, size \in 1..MaxPageSize, failPage \in 0..MaxListed,
          tagFails \in SUBSET {listing[k].arn : k \in 1..Len(listing)} :
         /\ failPage <= NumPages(TypeEquals(listing, type), size)
         /\ LET r == list_inference_profiles_paged(listing, type, size,
                                                   failPage, tagFails)
            IN  /\ listed' = [called |-> TRUE, type |-> type,
                              profiles |-> r.profiles]
                /\ out' = out \o r.lines
                /\ calls' = calls \o r.calls
    /\ pc' = "done"
    /\ UNCHANGED << mode, config, region, i, otherCount, app, nextId, sink,
                    tagged_profiles, listing, uiVars >>

NextList == ListCall

SpecList == InitList /\ [][NextList]_vars

\* ============================== interactive_create_inference_profile
\* the tags get_tags_input returns: one tag at least, the default key first
UiTagsChoices ==
    { << Tag("map-migrated", "v1") >>,
      << Tag("map-migrated", "v1"), Tag("env", "prod") >> }

\* inputs get_tags_input reads for n tags: key and value for each, "Continue
\* adding tags?" before each tag but the first and once more to leave
TagsPrompts(n) == 3 * n

UiNames == {"p1"}

\* answers to "Select Model Type": "" takes the default "1"
UiTypeAnswers == {"", "2"}

UiKeywords == {"", "M", "zz"}

\* response['modelSummaries'] of list_foundation_models
ModelSummaries ==
    << [modelId |-> "m1", on_demand |-> TRUE],
       [modelId |-> "m2", on_demand |-> FALSE] >>

\* str.lower() of one character, for the letters the keywords are made of
LowerChar(c) == IF c = "M" THEN "m" ELSE IF c = "Z" THEN "z" ELSE c

RECURSIVE Lower(_)
\* str.lower()
Lower(str) ==
    IF Len(str) = 0 THEN ""
    ELSE LowerChar(SubSeq(str, 1, 1)) \o Lower(SubSeq(str, 2, Len(str)))

\* `sub in str`
Contains(str, sub) ==
    \E k \in 1..(Len(str) - Len(sub) + 1) : SubSeq(str, k, k + Len(sub) - 1) = sub

\* BedrockTagger.list_available_models(keyword): the ids of the ON_DEMAND
\* models whose id contains the keyword; [] and a printed line when
\* list_foundation_models raises
list_available_models(keyword, ok, idx) ==
    [models |-> IF ok
                THEN SelectSeq([k \in 1..Len(ModelSummaries) |->
                                    ModelSummaries[k]],
                               LAMBDA m : m.on_demand
                                          /\ Contains(Lower(m.modelId),
                                                      Lower(keyword)))
                ELSE << >>,
     lines  |-> IF ok THEN << >>
                ELSE << Line("models_error", "ui", idx, "", "", "RemoteError") >>,
     calls  |-> << Call("list_foundation_models", "ui", idx, keyword, "",
                        PyNone, ok) >>]

\* int(get_user_input(...)): an answer that is no number raises ValueError
IndexAnswers ==
    {[num |-> FALSE, val |-> 0]} \cup {[num |-> TRUE, val |-> v] : v \in -1..1}

InitUi ==
    /\ mode = "interactive"
    /\ config = [region |-> "", tags |-> PyNone, profiles |-> << >>,
                 existing |-> << >>]
    /\ region = ""
    /\ pc = "ui_start"
    /\ i = 1
    /\ otherCount = 0
    /\ app = << >>
    /\ nextId = 1
    /\ sink = NoFile
    /\ tagged_profiles = << >>
    /\ out = << >>
    /\ calls = << >>
    /\ listing \in {l \in Listings : Len(l) <= 1}
    /\ listed = NotListed
    /\ prompts = 0
    /\ unprompted = 0
    /\ ui = NoUi

\* "Enter Region" and get_tags_input
UiStart ==
    /\ mode = "interactive"
    /\ pc = "ui_start"
    /\ \E answer \in RegionInputs, tags \in UiTagsChoices :
         /\ prompts + 1 + TagsPrompts(Len(tags)) <= MaxInputs
         /\ prompts' = prompts + 1 + TagsPrompts(Len(tags))
         /\ region' = IF answer # "" THEN answer ELSE DefaultRegion
         /\ ui' = [ui EXCEPT !.tags = PyList(tags)]
    /\ pc' = "ui_main"
    /\ unprompted' = 0
    /\ UNCHANGED << mode, config, i, otherCount, app, nextId, sink,
                    tagged_profiles, out, calls, listVars >>

\* top of the creation loop: "Enter Inference Profile Name", "Select Model Type"
EnterNameAndType ==
    /\ mode = "interactive"
    /\ pc = "ui_main"
    /\ prompts + 2 <= MaxInputs
    /\ prompts' = prompts + 2
    /\ \E name \in UiNames, answer \in UiTypeAnswers :
         LET type == IF answer # "" THEN answer ELSE "1"
         IN  /\ ui' = [ui EXCEPT !.profile_name = name, !.choices = << >>]
             /\ pc' = IF type = "1" THEN "ui_keyword" ELSE "ui_list_sys"
    /\ unprompted' = 0
    /\ UNCHANGED << mode, config, region, i, otherCount, app, nextId, sink,
                    tagged_profiles, out, calls, listVars >>

\* one iteration of the loop of get_valid_models
EnterKeyword ==
    /\ mode = "interactive"
    /\ pc = "ui_keyword"
    /\ prompts + 1 <= MaxInputs
    /\ prompts' = prompts + 1
    /\ \E keyword \in UiKeywords, ok \in BOOLEAN :
         IF keyword = ""
         THEN /\ out' = Append(out, Line("invalid_keyword", "ui", prompts', "",
                                         "", ""))
              /\ unprompted' = 0
              /\ UNCHANGED << pc, calls, ui >>
         ELSE LET m == list_available_models(keyword, ok, prompts')
              IN  /\ calls' = calls \o m.calls
                  /\ unprompted' = 1
                  /\ IF m.models # << >>
                     THEN /\ ui' = [ui EXCEPT !.choices =
                                      [k \in 1..Len(m.models) |-> m.models[k].modelId]]
                          /\ pc' = "ui_model_index"
                          /\ out' = out \o m.lines
                     ELSE /\ out' = out \o m.lines
                               \o << Line("no_models", "ui", prompts', "", "", "") >>
                          /\ UNCHANGED << pc, ui >>
    /\ UNCHANGED << mode, config, region, i, otherCount, app, nextId, sink,
                    tagged_profiles, listVars >>

\* one iteration of the loop of get_inference_profiles: no input is read
ListSystemProfiles ==
    /\ mode = "interactive"
    /\ pc = "ui_list_sys"
    /\ unprompted < MaxUnprompted
    /\ unprompted' = unprompted + 1
    /\ \E size \in 1..MaxPageSize, failPage \in 0..1,
          tagFails \in SUBSET {listing[k].arn : k \in 1..Len(listing)} :
         LET r == list_inference_profiles_paged(listing, "SYSTEM_DEFINED", size,
                                                failPage, tagFails)
         IN  /\ calls' = calls \o r.calls
             /\ IF r.profiles # << >>
                THEN /\ ui' = [ui EXCEPT !.choices =
                                 [k \in 1..Len(r.profiles) |->
                                     r.profiles[k].inferenceProfileArn]]
                     /\ pc' = "ui_profile_index"
                     /\ out' = out \o r.lines
                ELSE /\ out' = out \o r.lines
                          \o << Line("no_profiles", "ui", prompts, "", "", "") >>
                     /\ UNCHANGED << pc, ui >>
    /\ UNCHANGED << mode, config, region, i, otherCount, app, nextId, sink,
                    tagged_profiles, listVars, prompts >>

\* "Start to Create Inference Profile" up to the next question: the create
\* call, the immediate save, and the handler of the creation loop
UiCreate(model_arn) ==
    \E r \in RemoteResults, io \in IOFaults, kept \in 0..1 :
        LET c == create_inference_profile(otherCount, app, nextId,
                                          ui.profile_name, model_arn, ui.tags,
                                          r, "ui", prompts')
            s == save_to_csv(sink, << RemoteProfile(ui.profile_name, c.arn) >>,
                             ui.tags, io, kept, "ui", prompts')
        IN  /\ calls' = calls \o c.calls
            /\ app' = c.app
            /\ nextId' = c.nextId
            /\ unprompted' = 1
            /\ IF c.status = "raise"
               THEN /\ out' = Append(out, Line("ui_error", "ui", prompts',
                                               ui.profile_name, "", c.detail))
                    /\ sink' = sink
                    /\ pc' = "ui_retry"
               ELSE /\ sink' = s.file
                    /\ out' = out
                         \o << Line("created", "ui", prompts', "", c.arn, "") >>
                         \o (IF s.raised
                             THEN << Line("ui_error", "ui", prompts',
                                          ui.profile_name, "", "OSError") >>
                             ELSE << s.line >>)
                    /\ pc' = IF s.raised THEN "ui_retry" ELSE "ui_continue"

\* one iteration of an index-selection loop over the list displayed
SelectIndex(model_type) ==
    /\ prompts + 1 <= MaxInputs
    /\ prompts' = prompts + 1
    /\ \E answer \in IndexAnswers :
         IF ~answer.num
         THEN /\ out' = Append(out, Line("invalid_number", "ui", prompts', "",
                                         "", ""))
              /\ unprompted' = 0
              /\ UNCHANGED << pc, calls, app, nextId, sink >>
         ELSE IF ~(0 <= answer.val /\ answer.val < Len(ui.choices))
         THEN /\ out' = Append(out, Line("invalid_index", "ui", prompts', "",
                                         "", ""))
              /\ unprompted' = 0
              /\ UNCHANGED << pc, calls, app, nextId, sink >>
         ELSE UiCreate(ModelArn(region, model_type, ui.choices[answer.val + 1]))
    /\ UNCHANGED << mode, config, region, i, otherCount, tagged_profiles,
                    listVars, ui >>

\* "Select model index", then the creation with the model's ARN
SelectModelIndex ==
    /\ mode = "interactive"
    /\ pc = "ui_model_index"
    /\ SelectIndex("foundation")

\* "Select profile index", then the creation with the profile's ARN
SelectProfileIndex ==
    /\ mode = "interactive"
    /\ pc = "ui_profile_index"
    /\ SelectIndex("inference")

\* "Continue to create another Inference Profile?(y/n)", default n
AnswerContinue ==
    /\ mode = "interactive"
    /\ pc = "ui_continue"
    /\ prompts + 1 <= MaxInputs
    /\ prompts' = prompts + 1
    /\ \E answer \in {"", "Y"} :
         IF Lower(IF answer # "" THEN answer ELSE "n") # "y"
         THEN /\ pc' = "done"
              /\ out' = Append(out, Line("thanks", "ui", prompts', "", "", ""))
         ELSE /\ pc' = "ui_main"
              /\ out' = out
    /\ unprompted' = 0
    /\ UNCHANGED << mode, config, region, i, otherCount, app, nextId, sink,
                    tagged_profiles, calls, listVars, ui >>

\* "Retry?(y/n)", default y
AnswerRetry ==
    /\ mode = "interactive"
    /\ pc = "ui_retry"
    /\ prompts + 1 <= MaxInputs
    /\ prompts' = prompts + 1
    /\ \E answer \in {"", "n"} :
         IF Lower(IF answer # "" THEN answer ELSE "y") # "y"
         THEN /\ pc' = "done"
              /\ out' = Append(out, Line("thanks", "ui", prompts', "", "", ""))
         ELSE /\ pc' = "ui_main"
              /\ out' = out
    /\ unprompted' = 0
    /\ UNCHANGED << mode, config, region, i, otherCount, app, nextId, sink,
                    tagged_profiles, calls, listVars, ui >>

NextUi ==
    \/ UiStart
    \/ EnterNameAndType
    \/ EnterKeyword
    \/ ListSystemProfiles
    \/ SelectModelIndex
    \/ SelectProfileIndex
    \/ AnswerContinue
    \/ AnswerRetry

SpecUi == InitUi /\ [][NextUi]_vars

\* =================================================================== claims
\* the data rows of the sink, in file order
DataRows(rows) == SelectSeq(rows, LAMBDA r : r # HeaderRow)

\* how many times the header row occurs in the sink
CountHeader(rows) == Cardinality({k \in 1..Len(rows) : rows[k] = HeaderRow})

IsPrefix(a, b) == Len(a) <= Len(b) /\ SubSeq(b, 1, Len(a)) = a

\* the save_to_csv call of this step printed "Results saved"
SavedStep == Len(out') = Len(out) + 1 /\ out'[Len(out')].kind = "saved"

\* C5: a successful save_to_csv to a sink path that does not exist yet leaves
\* the header as the first row and nowhere else; any save_to_csv call on an
\* existing sink only appends and writes no header, so the header stays the
\* first row and occurs exactly once after any number of appends.
C5_HeaderOnce ==
    [][ /\ (SavedStep /\ ~sink.exists) =>
             /\ sink'.exists
             /\ Len(sink'.rows) >= 1
             /\ sink'.rows[1] = HeaderRow
             /\ CountHeader(sink'.rows) = 1
        /\ sink.exists =>
             /\ sink'.exists
             /\ IsPrefix(sink.rows, sink'.rows)
             /\ CountHeader(sink'.rows) = CountHeader(sink.rows)
      ]_vars

\* C5 witness: two successful appends to a sink that did not exist; the
\* header is the first row, followed by the data rows of both appends
C5_Witness ==
    /\ mode = "csv"
    /\ Len(out) >= 2
    /\ out[1].kind = "saved"
    /\ out[2].kind = "saved"
    /\ Len(sink.rows) >= 3
    /\ sink.rows[1] = HeaderRow
    /\ CountHeader(sink.rows) = 1

RECURSIVE Rendered(_)
\* the Tags column the spec asks for: key=value pairs in input order, "; "
\* between consecutive pairs
Rendered(tags) ==
    IF Len(tags) = 0 THEN ""
    ELSE LET n    == Len(tags)
             pair == tags[n].key \o "=" \o tags[n].value
         IN  IF n = 1 THEN pair
             ELSE Rendered(SubSeq(tags, 1, n - 1)) \o "; " \o pair

\* C6: the Tags column of every data row written by save_to_csv is the tags
\* of the call as key=value pairs joined by "; " in input order, duplicates
\* kept; [team=ml, env=prod] gives "team=ml; env=prod", no tags give "".
C6_TagSerialization ==
    mode = "csv" =>
      \A k \in 1..Len(sink.rows) :
        sink.rows[k] # HeaderRow =>
          /\ sink.rows[k].tags = Rendered(config.tags.items)
          /\ config.tags.items = << Tag("team", "ml"), Tag("env", "prod") >>
                => sink.rows[k].tags = "team=ml; env=prod"
          /\ config.tags.items = << Tag("env", "prod"), Tag("team", "ml") >>
                => sink.rows[k].tags = "env=prod; team=ml"
          /\ config.tags.items = << Tag("team", "ml"), Tag("team", "ml") >>
                => sink.rows[k].tags = "team=ml; team=ml"
          /\ config.tags.items = << >> => sink.rows[k].tags = ""

\* C6 witness: a data row written for the tags [team=ml, env=prod]
C6_Witness ==
    /\ mode = "csv"
    /\ config.tags = PyList(<< Tag("team", "ml"), Tag("env", "prod") >>)
    /\ \E k \in 1..Len(sink.rows) :
         sink.rows[k] = Row("p1", AppArn(1), "team=ml; env=prod")

\* ------------------------------------------------- outcomes of the batch
\* a printed line that reports a successful creation or tagging
IsSuccess(l) == l.kind \in {"created", "tagged"}

\* a printed line that reports the outcome of one request
IsOutcome(l) ==
    l.kind \in {"created", "tagged", "create_error", "tag_failed", "not_found",
                "no_name_or_arn"}

SuccessLines == SelectSeq(out, IsSuccess)
Outcomes     == SelectSeq(out, IsOutcome)

\* the file system failed during some save_to_csv call of the run
IOFaultSeen ==
    \E k \in 1..Len(out) : out[k].kind = "csv_error" /\ out[k].detail = "OSError"

\* the requests the run has to process
Requests ==
    IF mode = "create"
    THEN {<< "create", k >> : k \in 1..Len(config.profiles)}
    ELSE IF mode = "tag" /\ ~NoTags(config.tags)
    THEN {<< "existing", k >> : k \in 1..Len(config.existing)}
         \cup {<< "create", k >> : k \in 1..Len(config.profiles)}
    ELSE {}

\* the create or tag call of the request returned without an error
RemoteSucceeded(q) ==
    \E k \in 1..Len(calls) :
        /\ calls[k].group = q[1]
        /\ calls[k].idx = q[2]
        /\ calls[k].op \in {"create_inference_profile", "tag_resource"}
        /\ calls[k].ok

\* the audit row of a success line
RowOf(l) ==
    Row(IF l.group = "create" THEN config.profiles[l.idx].name ELSE l.name,
        l.arn, tag_str(config.tags.items))

\* the audit rows of the successful outcomes, in the order of the outcomes
ExpectedRows == [k \in 1..Len(SuccessLines) |-> RowOf(SuccessLines[k])]

RECURSIVE IsSubseq(_, _)
\* a can be obtained from b by dropping elements
IsSubseq(a, b) ==
    IF Len(a) = 0 THEN TRUE
    ELSE IF Len(b) = 0 THEN FALSE
    ELSE IF Head(a) = Head(b) THEN IsSubseq(Tail(a), Tail(b))
    ELSE IsSubseq(a, Tail(b))

\* C1: when a batch run (create or tag) has ended and the file system did
\* not fail, the audit CSV holds exactly as many data rows as there are
\* Created or Tagged outcomes.
C1_RowsEqualSuccesses ==
    (pc = "done" /\ ~IOFaultSeen) =>
        Len(DataRows(sink.rows)) = Len(SuccessLines)

\* C2: when a batch run has ended and the file system did not fail, every
\* request has been processed whatever happened to the requests before it,
\* and every request whose own remote create or tag call succeeded has a
\* Created/Tagged outcome and an audit row.
C2_PartialFailureIsolation ==
    (pc = "done" /\ ~IOFaultSeen) =>
        \A q \in Requests :
            /\ \E k \in 1..Len(out) :
                 IsOutcome(out[k]) /\ out[k].group = q[1] /\ out[k].idx = q[2]
            /\ RemoteSucceeded(q) =>
                 \E k \in 1..Len(out) :
                    /\ IsSuccess(out[k])
                    /\ out[k].group = q[1]
                    /\ out[k].idx = q[2]
                    /\ \E j \in 1..Len(sink.rows) : sink.rows[j] = RowOf(out[k])

\* C3: no two create calls for the same profile name both succeed (the
\* second create of a name is refused as already existing).
C3_CreateIdempotent ==
    \A a, b \in 1..Len(calls) :
        ( /\ a < b
          /\ calls[a].op = "create_inference_profile"
          /\ calls[b].op = "create_inference_profile"
          /\ calls[a].ok
          /\ calls[b].ok ) => calls[a].name # calls[b].name

\* C4: at every point of a batch run (create or tag) with a tags list and
\* no file system fault, the sink already holds a row for every Created or
\* Tagged outcome printed so far.
C4_ImmediateAppend ==
    (mode \in {"create", "tag"} /\ ~config.tags.none /\ ~IOFaultSeen) =>
        DataRows(sink.rows) = ExpectedRows

\* C7: the batch-create config (region us-west-2, one profile p1 / foundation
\* / m1, no tags key) issues the create call with source ARN
\* arn:aws:bedrock:us-west-2::foundation-model/m1 and, when that call
\* succeeds, the sink ends with exactly one data row (p1, returned arn, "").
C7_NoTagsScenario ==
    ( /\ mode = "create"
      /\ pc = "done"
      /\ config.region = "us-west-2"
      /\ config.tags.none
      /\ config.profiles = << ProfileConfig("p1", "foundation", "m1") >>
      /\ RemoteSucceeded(<< "create", 1 >>) ) =>
        /\ \E k \in 1..Len(calls) :
             /\ calls[k].op = "create_inference_profile"
             /\ calls[k].name = "p1"
             /\ calls[k].arn = "arn:aws:bedrock:us-west-2::foundation-model/m1"
        /\ \E k \in 1..Len(out) :
             /\ out[k].kind = "created"
             /\ DataRows(sink.rows) = << Row("p1", out[k].arn, "") >>

\* the named APPLICATION profiles that existed before the run
InitialApp ==
    SelectSeq(app, LAMBDA p :
        \A k \in 1..Len(out) : ~(out[k].kind = "created" /\ out[k].arn = p.arn))

\* entry k of existing-profiles-to-tag is given by name only and no
\* APPLICATION profile has that name
UnmatchedName(k) ==
    /\ config.existing[k].arn = ""
    /\ config.existing[k].name # ""
    /\ \A j \in 1..Len(InitialApp) : InitialApp[j].name # config.existing[k].name

\* entry k of existing-profiles-to-tag has been processed
ExistingProcessed(k) ==
    /\ mode = "tag"
    /\ ~NoTags(config.tags)
    /\ k \in 1..Len(config.existing)
    /\ pc \in {"creating", "saving", "done"} \/ (pc = "tagging" /\ i > k)

GroupRank(g) == IF g = "existing" THEN 1 ELSE 2

C10_SinkFailureContained ==
    /\ pc # "crashed"
    /\ \A k \in 1..Len(out) : out[k].kind # "traceback"
    /\ mode = "create" =>
         /\ \A k \in 1..Len(out) :
              out[k].kind = "created" =>
                 /\ k < Len(out)
                 /\ out[k + 1].kind \in {"saved", "csv_error"}
                 /\ out[k + 1].idx = out[k].idx
         /\ \A k \in 1..Len(out) :
              out[k].kind = "csv_error" =>
                 /\ k > 1
                 /\ out[k - 1].kind = "created"
                 /\ out[k - 1].idx = out[k].idx
                 /\ \A j \in 1..Len(out) :
                      out[j].kind = "create_error" => out[j].idx # out[k].idx
                 /\ Cardinality({j \in 1..Len(calls) :
                        /\ calls[j].op = "create_inference_profile"
                        /\ calls[j].idx = out[k].idx}) = 1
                 /\ i > out[k].idx
                 /\ pc = "done" <=> i > Len(config.profiles)
         /\ pc = "done" =>
              \A q \in Requests :
                 Cardinality({k \in 1..Len(Outcomes) :
                    Outcomes[k].group = q[1] /\ Outcomes[k].idx = q[2]}) = 1
    /\ mode = "tag" =>
         \A k \in 1..Len(out) :
            out[k].kind = "csv_error" =>
               /\ pc = "done"
               /\ k < Len(out)
               /\ out[k + 1].kind = "summary"

\* C10 witness: batch create has ended; the save of the first created
\* profile failed in the file system, and the second request was still
\* processed and its profile created and saved
C10_Witness ==
    /\ mode = "create"
    /\ pc = "done"
    /\ Len(config.profiles) = 2
    /\ \E k \in 1..Len(out) :
         /\ out[k].kind = "csv_error"
         /\ out[k].detail = "OSError"
         /\ out[k].idx = 1
    /\ \E k \in 1..Len(out) : out[k].kind = "created" /\ out[k].idx = 2
    /\ \E k \in 1..Len(out) : out[k].kind = "saved" /\ out[k].idx = 2

\* C13: a remote create request is never issued for a name that an
\* APPLICATION profile already carries at the time of the call.
C13_NoCreateWhenNameExists ==
    [][ \A k \in (Len(calls) + 1)..Len(calls') :
            calls'[k].op = "create_inference_profile" =>
                \A j \in 1..Len(app) : app[j].name # calls'[k].name
      ]_vars

\* C14: in batch tag with no tags (key missing or empty list) no client call
\* is ever issued and the sink is never created; the run ends right after
\* the "No tags found" line, whatever lists the config holds.
C14_NoTagsNoCalls ==
    (mode = "tag" /\ (config.tags.none \/ config.tags.items = << >>)) =>
        /\ calls = << >>
        /\ sink = NoFile
        /\ tagged_profiles = << >>
        /\ app \in {rs.named : rs \in RemoteChoices}
        /\ pc \in {"start", "done"}
        /\ pc = "done" => out = << Line("no_tags", "", 0, "", "", "") >>

\* C14 witness: a batch-tag run without tags has ended although its config
\* lists an existing profile to tag and a profile to create
C14_Witness ==
    /\ mode = "tag"
    /\ ~config.tags.none
    /\ config.tags.items = << >>
    /\ pc = "done"
    /\ Len(config.existing) > 0
    /\ Len(config.profiles) > 0
    /\ calls = << >>

\* the fetch of the tags of the profile with this arn returned
TagFetchOk(arn) ==
    \E k \in 1..Len(calls) :
        calls[k].op = "list_tags_for_resource" /\ calls[k].arn = arn /\ calls[k].ok

\* a page request of the listing raised
PageFailed ==
    \E k \in 1..Len(calls) :
        calls[k].op = "list_inference_profiles_page" /\ ~calls[k].ok

\* a tag fetch of the listing raised
TagFetchFailed ==
    \E k \in 1..Len(calls) :
        calls[k].op = "list_tags_for_resource" /\ ~calls[k].ok

\* C11: when a client call of list_inference_profiles has failed, at least
\* one failure line has been printed.
C11_FailurePrinted ==
    (listed.called /\ \E k \in 1..Len(calls) : ~calls[k].ok) =>
        \E j \in 1..Len(out) : out[j].kind = "list_error"

\* C12: list_inference_profiles returns, in listing order, one entry for each
\* profile of the requested type on the pages it received, all of them when
\* no page request failed; an entry carries the profile's stored tags when
\* its tag fetch returned and no tags when it raised; a tag fetch that
\* raised neither ends the listing nor changes another entry.
C12_ListingComplete ==
    listed.called =>
        LET items == TypeEquals(listing, listed.type)
            got   == listed.profiles
        IN  /\ Len(got) <= Len(items)
            /\ ~PageFailed => Len(got) = Len(items)
            /\ \A k \in 1..Len(got) :
                  /\ got[k].name = items[k].name
                  /\ got[k].inferenceProfileArn = items[k].arn
                  /\ got[k].tags = IF TagFetchOk(items[k].arn)
                                   THEN items[k].tags ELSE << >>

\* C12 witness: a listing over more than one page, no page request failed, a
\* tag fetch raised for one profile and a later profile kept its tags
C12_Witness ==
    /\ listed.called
    /\ ~PageFailed
    /\ Cardinality({k \in 1..Len(calls) :
                      calls[k].op = "list_inference_profiles_page"}) > 1
    /\ \E a, b \in 1..Len(listed.profiles) :
         /\ a < b
         /\ ~TagFetchOk(listed.profiles[a].inferenceProfileArn)
         /\ listed.profiles[a].tags = << >>
         /\ listed.profiles[b].tags # << >>

\* the positions of the retry loops of the interactive create workflow
UiRetryLoops == {"ui_keyword", "ui_list_sys", "ui_model_index", "ui_profile_index"}

\* C15: an iteration of a retry loop of the interactive create workflow that
\* ends in the same loop has read a user input.
C15_RetryReadsInput ==
    [][ (mode = "interactive" /\ pc \in UiRetryLoops /\ pc' = pc)
            => prompts' > prompts ]_vars

====
